---- MODULE Spec2Model ----
(***************************************************************************)
(* Model of atgmlogger_plugins/mqtt.py: the MQTTClient plugin, which pulls *)
(* comma-delimited telemetry lines from the plugin queue, extracts and     *)
(* casts named fields and publishes them through an AWS IoT MQTT client.   *)
(*                                                                         *)
(* A Python str is a sequence of one-character strings, wrapped as a       *)
(* Python value by Str; the Python value None is PyNone.                   *)
(***************************************************************************)
EXTENDS Integers, Sequences, FiniteSets, TLC

VARIABLES
    pc,         \* position of MQTTClient.run: new, ready, head, get, returned, raised
    exc,        \* the exception run propagated ("None" while there is none)
    inst,       \* the instance __dict__ of the MQTTClient
    topic,      \* the local variable topic of run
    exiting,    \* the shutdown flag of the plugin interface
    queue,      \* the plugin's input queue
    unfinished, \* the queue's count of items put and not yet acknowledged
    mqtt,       \* the AWSIoTMQTTClient: its state and the calls made on it
    last,       \* what the last loop iteration did with the item it retrieved
    nput,       \* number of items the producer has put
    nget,       \* number of items run has retrieved
    nack,       \* number of task_done calls run has made
    xin,        \* input of the pure-function specifications
    xout        \* result of the pure-function specifications

vars == <<pc, exc, inst, topic, exiting, queue, unfinished, mqtt, last,
          nput, nget, nack, xin, xout>>

-----------------------------------------------------------------------------
(* Bounds of the model *)

\* largest publish interval the host configures
MaxInterval == 3
\* number of items the producer puts in one run
MaxItems == 12
\* capacity the producer fills the queue to
MaxQueue == 1
\* number of tokens of a generated line
MaxTokens == 3
\* largest of the small GPS week numbers
MaxWeek == 7
\* largest of the small numbers of seconds into the GPS week
MaxSeconds == 6

-----------------------------------------------------------------------------
(* Python text and the conversions the field casts use *)

None == "None"

Digits == {"0", "1", "2", "3", "4", "5", "6", "7", "8", "9"}

DigitVal(c) ==
    CASE c = "0" -> 0 [] c = "1" -> 1 [] c = "2" -> 2 [] c = "3" -> 3
      [] c = "4" -> 4 [] c = "5" -> 5 [] c = "6" -> 6 [] c = "7" -> 7
      [] c = "8" -> 8 [] c = "9" -> 9

Range(s) == {s[i] : i \in DOMAIN s}

AllDigits(s) == \A i \in DOMAIN s : s[i] \in Digits

Tail0(s, n) == SubSeq(s, n + 1, Len(s))

\* the position of the first sep in s
FirstSep(s, sep) ==
    CHOOSE k \in DOMAIN s : s[k] = sep /\ \A j \in 1..(k - 1) : s[j] # sep

\* str.split(sep): the pieces between the separators, always at least one
RECURSIVE split(_, _)
SplitAt(s, sep, k) == <<SubSeq(s, 1, k - 1)>> \o split(Tail0(s, k), sep)

split(s, sep) ==
    IF \A i \in DOMAIN s : s[i] # sep THEN <<s>>
    ELSE SplitAt(s, sep, FirstSep(s, sep))

\* sep.join(parts)
RECURSIVE join(_, _)
join(sep, parts) ==
    IF Len(parts) = 0 THEN <<>>
    ELSE IF Len(parts) = 1 THEN parts[1]
    ELSE parts[1] \o <<sep>> \o join(sep, Tail(parts))

\* str.lower() on the field names of the model
lower(name) ==
    CASE name = "Gravity" -> "gravity"
      [] name = "DATETIME" -> "datetime"
      [] OTHER -> name

\* digits without their leading zeros (the digits of the number they denote)
RECURSIVE StripZeros(_)
StripZeros(ds) ==
    IF Len(ds) > 1 /\ ds[1] = "0" THEN StripZeros(Tail(ds)) ELSE ds

\* digits without their trailing zeros
RECURSIVE StripTrailingZeros(_)
StripTrailingZeros(ds) ==
    IF Len(ds) > 0 /\ ds[Len(ds)] = "0"
    THEN StripTrailingZeros(SubSeq(ds, 1, Len(ds) - 1)) ELSE ds

HasSign(s) == Len(s) > 0 /\ s[1] \in {"+", "-"}
Unsigned(s) == IF HasSign(s) THEN Tail(s) ELSE s
IsNeg(s) == Len(s) > 0 /\ s[1] = "-"

ValueError == [raised |-> "ValueError"]
IndexError == [raised |-> "IndexError"]
Return(v) == [raised |-> None, value |-> v]
Raises(r) == r.raised # None

IntOf(neg, body) ==
    IF Len(body) > 0 /\ AllDigits(body)
    THEN Return([py |-> "int", neg |-> neg /\ StripZeros(body) # <<"0">>,
                 digits |-> StripZeros(body)])
    ELSE ValueError

\* int(text): an optional sign and at least one digit
PyInt(s) == IntOf(IsNeg(s), Unsigned(s))

\* parts are the pieces of the unsigned text around its points
FloatOf(neg, parts) ==
    IF /\ Len(parts) <= 2
       /\ \A i \in DOMAIN parts : AllDigits(parts[i])
       /\ \E i \in DOMAIN parts : Len(parts[i]) > 0
    THEN Return([py |-> "float", neg |-> neg,
                 int |-> IF parts[1] = <<>> THEN <<"0">>
                         ELSE StripZeros(parts[1]),
                 frac |-> IF Len(parts) = 2 THEN StripTrailingZeros(parts[2])
                          ELSE <<>>])
    ELSE ValueError

\* float(text): an optional sign, digits with at most one point, a digit at least
PyFloat(s) == FloatOf(IsNeg(s), split(Unsigned(s), "."))

\* str(text)
PyStr(s) == Return([py |-> "str", s |-> s])

\* the number one, two or four digits denote
Num(ds) ==
    IF Len(ds) = 1 THEN DigitVal(ds[1])
    ELSE IF Len(ds) = 2 THEN 10 * DigitVal(ds[1]) + DigitVal(ds[2])
    ELSE 1000 * DigitVal(ds[1]) + 100 * DigitVal(ds[2])
         + 10 * DigitVal(ds[3]) + DigitVal(ds[4])

DaysInMonth(y, m) ==
    IF m \in {4, 6, 9, 11} THEN 30
    ELSE IF m # 2 THEN 31
    ELSE IF (y % 4 = 0 /\ y % 100 # 0) \/ y % 400 = 0 THEN 29 ELSE 28

\* strptime matches %Y with four digits and each of %m %d %H %M %S (directives
\* 1 to 5) with two digits or, failing that, with one. w[k] is the number of
\* digits directive k takes. (%d also takes a space and a digit; the tokens of
\* the model hold no space.)
Widths == [1..5 -> {1, 2}]

RECURSIVE WidthSum(_, _)
WidthSum(w, n) == IF n = 0 THEN 0 ELSE w[n] + WidthSum(w, n - 1)

Piece(s, w, k) == SubSeq(s, 5 + WidthSum(w, k - 1), 4 + WidthSum(w, k))

\* the numbers the pattern of directive k accepts, written with len digits
InRange(k, len, n) ==
    CASE k = 1 -> IF len = 2 THEN n \in 1..12 ELSE n \in 1..9
      [] k = 2 -> IF len = 2 THEN n \in 1..31 ELSE n \in 1..9
      [] k = 3 -> len = 1 \/ n \in 0..23
      [] k = 4 -> len = 1 \/ n \in 0..59
      [] k = 5 -> len = 1 \/ n \in 0..61

DirectiveOk(k, t) == AllDigits(t) /\ InRange(k, Len(t), Num(t))

MatchesOf(s) ==
    {w \in Widths :
        \A k \in 1..5 : /\ 4 + WidthSum(w, k) <= Len(s)
                        /\ DirectiveOk(k, Piece(s, w, k))}

\* the backtracking match tries v before w
Before(v, w) ==
    \E k \in 1..5 : v[k] > w[k] /\ \A j \in 1..(k - 1) : v[j] = w[j]

FirstMatch(M) == CHOOSE v \in M : \A w \in M : v = w \/ Before(v, w)

DateTime(s, w) ==
    <<Num(SubSeq(s, 1, 4)), Num(Piece(s, w, 1)), Num(Piece(s, w, 2)),
      Num(Piece(s, w, 3)), Num(Piece(s, w, 4)), Num(Piece(s, w, 5))>>

\* datetime(year, month, day, hour, minute, second) exists
ValidDateTime(d) ==
    d[1] >= 1 /\ d[3] <= DaysInMonth(d[1], d[2]) /\ d[6] <= 59

\* the first match must use up the text and name a date and time that exist
Parsed(s, w) ==
    IF 4 + WidthSum(w, 5) = Len(s) /\ ValidDateTime(DateTime(s, w))
    THEN Return(DateTime(s, w))
    ELSE ValueError

\* datetime.strptime(text, '%Y%m%d%H%M%S')
strptime(s) ==
    IF Len(s) < 4 \/ ~AllDigits(SubSeq(s, 1, 4)) \/ MatchesOf(s) = {}
    THEN ValueError
    ELSE Parsed(s, FirstMatch(MatchesOf(s)))

\* convert_time without its except clause
timestamp_or_raise(parsed) ==
    IF parsed.raised = "ValueError"
    THEN parsed
    ELSE Return([py |-> "timestamp", of |-> "strptime",
                 ymdhms |-> parsed.value])

\* the try and except of convert_time: the timestamp of the parsed meter time,
\* or of the current time when strptime raised ValueError
timestamp_or_now(parsed) ==
    IF parsed.raised = "ValueError"
    THEN Return([py |-> "timestamp", of |-> "utcnow", ymdhms |-> <<>>])
    ELSE Return([py |-> "timestamp", of |-> "strptime",
                 ymdhms |-> parsed.value])

convert_time(meter_time) == timestamp_or_now(strptime(meter_time))

-----------------------------------------------------------------------------
(* Python values of the plugin *)

\* the empty dict
EmptyDict == [k \in {} |-> TRUE]

PyNone == [py |-> "None"]
Str(chars) == [py |-> "str", s |-> chars]
IsStr(v) == v.py = "str"

TypeError == [raised |-> "TypeError"]

\* sep.join(parts) of Python: every part must be a str
PyJoin(sep, parts) ==
    IF \E i \in DOMAIN parts : ~IsStr(parts[i]) THEN TypeError
    ELSE Return(Str(join(sep, [i \in DOMAIN parts |-> parts[i].s])))

-----------------------------------------------------------------------------
(* class MQTTClient: its class attributes *)

_marine_fieldmap ==
    <<"header", "gravity", "long", "cross", "beam", "temp", "pressure",
      "etemp", "vcc", "ve", "al", "ax", "status", "checksum", "latitude",
      "longitude", "speed", "course", "datetime">>

\* _field_casts.get(name, int)(token)
_field_casts(name, token) ==
    CASE name = "header" -> PyStr(token)
      [] name \in {"gravity", "latitude", "longitude", "speed", "course"} ->
             PyFloat(token)
      [] name = "datetime" -> convert_time(token)
      [] OTHER -> PyInt(token)

ClassAttrs ==
    [topic_pfx |-> Str(<<"g", "r", "a", "v", "i", "t", "y">>),
     endpoint  |-> PyNone,
     interval  |-> 1,
     fields    |-> <<"gravity", "long", "cross", "latitude", "longitude",
                     "datetime">>,
     datafmt   |-> "marine"]

\* the positions of the field map whose name, lower-cased, is in the list
\* of fields to forward
Requested(fields, fieldmap) ==
    {i \in DOMAIN fieldmap : lower(fieldmap[i]) \in Range(fields)}

\* the cast without the except clause
cast_or_raise(cast, token) == cast

\* except ValueError: extracted[field] = data[i]
cast_or_raw(cast, token) ==
    IF cast.raised = "ValueError" THEN Return([py |-> "str", s |-> token])
    ELSE cast

\* extracted[field] = cls._field_casts.get(field.lower(), int)(data[i]);
\* data[i] raises IndexError when the line has no token i
extract_field(field, data, i) ==
    IF i > Len(data) THEN IndexError
    ELSE cast_or_raw(_field_casts(lower(field), data[i]), data[i])

\* the requested positions whose extraction raises
Failing(req, data, fieldmap) ==
    {i \in req : Raises(extract_field(fieldmap[i], data, i))}

Least(S) == CHOOSE i \in S : \A j \in S : i <= j

\* the last requested position that holds the field name
LastOf(req, fieldmap, name) ==
    CHOOSE i \in req : /\ fieldmap[i] = name
                       /\ \A j \in req : fieldmap[j] = name => j <= i

\* the loop of extract_fields over the tokens data: the first exception a
\* requested position raises, else the dict of the extracted fields
extract_loop(req, bad, data, fieldmap) ==
    IF bad # {}
    THEN extract_field(fieldmap[Least(bad)], data, Least(bad))
    ELSE Return([name \in {fieldmap[i] : i \in req} |->
                    extract_field(name, data,
                                  LastOf(req, fieldmap, name)).value]
                @@ EmptyDict)

extract_tokens(req, data, fieldmap) ==
    extract_loop(req, Failing(req, data, fieldmap), data, fieldmap)

\* extract_fields(cls, data, fieldmap), fields being cls.fields
extract_fields(fields, data, fieldmap) ==
    extract_tokens(Requested(fields, fieldmap), split(data, ","), fieldmap)

-----------------------------------------------------------------------------
(* The lines the producer feeds the queue *)

\* first sample line of the module's "Marine Data Fields/Sample"
SampleLine ==
    <<"$", "U", "W", ",", "2", "0", "0", "8", "3", ",", "-", "1", "3", "6",
    "9", ",", "-", "9", "4", "0", ",", "5", "1", "0", "4", "8", "8", "7",
    ",", "2", "5", "2", ",", "4", "6", "6", ",", "2", "1", "2", ",", "4",
    "5", "0", "2", ",", "4", "0", "0", ",", "-", "2", "4", ",", "-", "1",
    "6", ",", "4", "4", "3", "0", ",", "5", "1", "2", "8", "4", "5", "3",
    ",", "3", "9", ".", "9", "0", "9", "2", "2", "6", "1", "6", "6", "7",
    ",", "-", "1", "0", "5", ".", "0", "7", "4", "7", "5", "0", "6", "6",
    "6", "7", ",", "0", ".", "0", "0", "4", "0", "3", "3", "0", ".", "9",
    "4", "0", "0", ",", "2", "0", "1", "7", "1", "2", "0", "6", "1", "7",
    "3", "3", "4", "8">>

\* second sample line of the module's "Marine Data Fields/Sample"
SampleLine2 ==
    <<"$", "U", "W", ",", "-", "9", "6", "9", "6", ",", "-", "7", "7", "8",
    "1", ",", "4", "6", "2", "8", ",", "4", "1", "1", "8", "2", "5", "2",
    ",", "2", "5", "7", ",", "4", "0", "9", ",", "1", "9", "9", ",", "3",
    "2", "8", "8", "8", ",", "1", "2", "8", ",", "7", "3", ",", "-", "4",
    "2", ",", "4", "3", "6", "2", ",", "4", "1", "3", "9", "3", "1", "5",
    ",", "3", "9", ".", "9", "0", "9", "2", "0", "3", "2", "6", "6", "7",
    ",", "-", "1", "0", "5", ".", "0", "7", "4", "7", "8", "0", "1", "5",
    "0", "0", ",", "0", ".", "0", "0", "0", "0", ",", "0", ".", "0", "0",
    "0", "0", ",", "0", "0", "0", "0", "0", "0", "0", "0", "0", "0", "0",
    "0", "2", "2">>

\* a marine line of nineteen tokens with a meter time that parses: the tokens
\* of the second sample line, its last one replaced by the first sample's
MarineLine ==
    LET t1 == split(SampleLine, ",")
        t2 == split(SampleLine2, ",")
    IN  join(",", SubSeq(t2, 1, Len(t2) - 1) \o <<t1[Len(t1)]>>)

\* the text lines of the model, and the items the producer puts
Lines == {<<>>, SampleLine, SampleLine2, MarineLine}

Items == {PyNone} \cup {Str(line) : line \in Lines}

-----------------------------------------------------------------------------
(* The host: options, producer and shutdown flag of the plugin interface *)

EndpointUrl == Str(<<"e", "p">>)
SensorName == Str(<<"a", "t", "g", "m">>)
TopicName == Str(<<"m", "1">>)

\* the forward-list the host configures, when it configures one
ConfiguredFields == <<"gravity", "latitude", "longitude", "datetime">>

\* the option dictionaries the host passes to configure
OptionSets ==
    {e @@ s @@ t @@ i @@ f :
        e \in {EmptyDict, "endpoint" :> EndpointUrl},
        s \in {EmptyDict, "sensorid" :> SensorName},
        t \in {EmptyDict, "topicid" :> TopicName},
        i \in {EmptyDict} \cup {"interval" :> n : n \in 2..MaxInterval},
        f \in {EmptyDict, "fields" :> ConfiguredFields}}

\* the identifiers str(uuid4())[0:8] can give
Uuid8 == {<<"0", "f", "3", "a", "9", "c", "1", "e">>,
          <<"7", "b", "2", "d", "4", "4", "0", "6">>}

\* PluginInterface.configure: every option becomes an attribute of the instance
configure(opts) ==
    /\ pc = "new"
    /\ inst' = opts @@ inst
    /\ pc' = "ready"
    /\ UNCHANGED <<exc, topic, exiting, queue, unfinished, mqtt, last,
                   nput, nget, nack, xin, xout>>

\* the producer: Queue.put
put(item) ==
    /\ pc \in {"ready", "head", "get"}
    /\ nput < MaxItems
    /\ Len(queue) < MaxQueue
    /\ queue' = Append(queue, item)
    /\ unfinished' = unfinished + 1
    /\ nput' = nput + 1
    /\ UNCHANGED <<pc, exc, inst, topic, exiting, mqtt, last, nget, nack,
                   xin, xout>>

\* PluginInterface.exit: the host raises the shutdown flag
exit ==
    /\ pc \in {"ready", "head", "get"}
    /\ ~exiting
    /\ exiting' = TRUE
    /\ UNCHANGED <<pc, exc, inst, topic, queue, unfinished, mqtt, last,
                   nput, nget, nack, xin, xout>>

-----------------------------------------------------------------------------
(* class MQTTClient: the instance *)

\* MQTTClient.__init__
__init__ ==
    [client |-> PyNone, tick |-> 0, sensorid |-> PyNone, _errcount |-> 0]

\* self.name: the instance attribute, else the class attribute
Attr(self, name) ==
    IF name \in DOMAIN self THEN self[name] ELSE ClassAttrs[name]

\* getattr(self, name, default)
getattr(self, name, default) ==
    IF name \in DOMAIN self \cup DOMAIN ClassAttrs
    THEN Attr(self, name) ELSE default

NoClient ==
    [state |-> "absent", clientID |-> PyNone, endpoint |-> PyNone,
     connects |-> 0, disconnects |-> 0, published |-> FALSE]

NoMessage == [topic |-> PyNone, payload |-> PyNone]

\* json.dumps of a dict: the JSON object with the dict's members (the wire
\* text itself is not modelled)
json_dumps(d) == [py |-> "json", object |-> d]

-----------------------------------------------------------------------------
(* The AWSIoTMQTTClient, as far as the plugin drives it *)

AWSIoTMQTTClient(clientID) == [NoClient EXCEPT !.state = "constructed",
                                               !.clientID = clientID]

configureEndpoint(client, endpoint) == [client EXCEPT !.endpoint = endpoint]

connect(client) == [client EXCEPT !.state = "connected", !.connects = @ + 1]

disconnect(client) ==
    [client EXCEPT !.state = "disconnected", !.disconnects = @ + 1]

\* publish(topic, payload, 0) that returns; the message itself is kept in last
publish(client) == [client EXCEPT !.published = TRUE]

-----------------------------------------------------------------------------
(* MQTTClient.configure_client and MQTTClient.run *)

\* errors run absorbs before it gives up
ErrorLimit == 10

\* configure_client past the test of the endpoint: self already holds the
\* sensorid, topicid is the local variable, client the configured
\* AWSIoTMQTTClient, joined the result of '/'.join([self.topic_pfx, topicid])
configure_connect(self, client, joined, connect_ok) ==
    IF ~connect_ok
    THEN [raised |-> "connectError", self |-> self, mqtt |-> client,
          value |-> PyNone]
    ELSE IF Raises(joined)
    THEN [raised |-> joined.raised, self |-> self, mqtt |-> connect(client),
          value |-> PyNone]
    ELSE [raised |-> None, self |-> self, mqtt |-> connect(client),
          value |-> joined.value]

configure_topic(self, topicid, connect_ok) ==
    configure_connect([self EXCEPT !.client = [py |-> "AWSIoTMQTTClient"]],
                      configureEndpoint(AWSIoTMQTTClient(self.sensorid),
                                        Attr(self, "endpoint")),
                      PyJoin("/", <<Attr(self, "topic_pfx"), topicid>>),
                      connect_ok)

configure_sensor(self, connect_ok) ==
    configure_topic(self, getattr(self, "topicid", self.sensorid), connect_ok)

\* configure_client without the test of the endpoint
configure_client_unchecked(self, client, uuid, connect_ok) ==
    configure_sensor(
        [self EXCEPT !.sensorid = getattr(self, "sensorid", uuid)],
        connect_ok)

\* configure_client: uuid is the value of str(uuid4())[0:8], connect_ok tells
\* whether the client's connect() returns or raises
configure_client(self, client, uuid, connect_ok) ==
    IF Attr(self, "endpoint") = PyNone
    THEN [raised |-> "ValueError", self |-> self, mqtt |-> client,
          value |-> PyNone]
    ELSE configure_sensor(
             [self EXCEPT !.sensorid = getattr(self, "sensorid", uuid)],
             connect_ok)

\* run, up to the loop: topic = self.configure_client()
run_start ==
    /\ pc = "ready"
    /\ \E u \in Uuid8, connect_ok \in BOOLEAN :
       \E r \in {configure_client(inst, mqtt, Str(u), connect_ok)} :
          /\ inst' = r.self
          /\ mqtt' = r.mqtt
          /\ topic' = r.value
          /\ pc' = IF Raises(r) THEN "raised" ELSE "head"
          /\ exc' = r.raised
    /\ UNCHANGED <<exiting, queue, unfinished, last, nput, nget, nack,
                   xin, xout>>

\* the loop test of a run that empties the queue before it honours the flag
run_head_drain ==
    /\ pc = "head"
    /\ IF exiting /\ queue = <<>>
       THEN /\ mqtt' = disconnect(mqtt)
            /\ pc' = "returned"
       ELSE /\ mqtt' = mqtt
            /\ pc' = "get"
    /\ UNCHANGED <<exc, inst, topic, exiting, queue, unfinished, last,
                   nput, nget, nack, xin, xout>>

\* the loop test of a run whose disconnect sits inside the loop
run_head_disconnect_inside ==
    /\ pc = "head"
    /\ mqtt' = disconnect(mqtt)
    /\ pc' = IF exiting THEN "returned" ELSE "get"
    /\ UNCHANGED <<exc, inst, topic, exiting, queue, unfinished, last,
                   nput, nget, nack, xin, xout>>

\* the loop test of a run that returns without self.client.disconnect()
run_head_no_disconnect ==
    /\ pc = "head"
    /\ pc' = IF exiting THEN "returned" ELSE "get"
    /\ UNCHANGED <<exc, inst, topic, exiting, queue, unfinished, mqtt, last,
                   nput, nget, nack, xin, xout>>

\* run: the test of "while not self.exiting", and the disconnect after the loop
run_head ==
    /\ pc = "head"
    /\ IF exiting
       THEN /\ mqtt' = disconnect(mqtt)
            /\ pc' = "returned"
       ELSE /\ mqtt' = mqtt
            /\ pc' = "get"
    /\ UNCHANGED <<exc, inst, topic, exiting, queue, unfinished, last,
                   nput, nget, nack, xin, xout>>

\* What the try block computes from the text of an item (lines 233 to 238 of
\* run), worked out once for every line of the model.
line_values ==
    [line \in Lines |->
        [fields    |-> split(line, ","),
         timestamp |-> convert_time(split(line, ",")[Len(split(line, ","))]),
         data_dict |-> extract_fields(ClassAttrs.fields, line,
                                      _marine_fieldmap)]] @@ EmptyDict

\* the test of the loop with the tick compared to the interval, not reduced
\* modulo it
skipped_unless_equal(self, item) ==
    \/ item.py = "None"
    \/ item = Str(<<>>)
    \/ self.tick # Attr(self, "interval")

\* the test of the loop without the throttle
skipped_without_throttle(self, item) ==
    \/ item.py = "None"
    \/ item = Str(<<>>)

\* if item is None or item == "" or self.tick % self.interval
skipped(self, item) ==
    \/ item.py = "None"
    \/ item = Str(<<>>)
    \/ self.tick % Attr(self, "interval") # 0

\* the exception the try block raises, None when it raises none; publish_ok
\* tells whether the client's publish() returns or raises
try_error(values, publish_ok) ==
    IF Raises(values.timestamp) THEN values.timestamp.raised
    ELSE IF Len(values.fields) = 0 THEN None
    ELSE IF Raises(values.data_dict) THEN values.data_dict.raised
    ELSE IF ~publish_ok THEN "publishError"
    ELSE None

\* the except block raising again as soon as the counter reaches the limit
run_except_at_limit(self, client, error) ==
    [self |-> [self EXCEPT !._errcount = @ + 1], mqtt |-> client, acks |-> 0,
     selected |-> TRUE, outcome |-> "error", error |-> error,
     raised |-> IF self._errcount + 1 >= ErrorLimit THEN error ELSE None,
     message |-> NoMessage]

\* the except block: count the error, raise again above the limit
run_except(self, client, error) ==
    [self |-> [self EXCEPT !._errcount = @ + 1], mqtt |-> client, acks |-> 0,
     selected |-> TRUE, outcome |-> "error", error |-> error,
     raised |-> IF self._errcount + 1 > ErrorLimit THEN error ELSE None,
     message |-> NoMessage]

\* the try block with the error counter reset by a successful publish
run_try_resetting(self, client, tpc, values, error) ==
    IF error # None THEN run_except(self, client, error)
    ELSE [self |-> [self EXCEPT !._errcount = 0], mqtt |-> publish(client),
          acks |-> 1, selected |-> TRUE, outcome |-> "published",
          error |-> None, raised |-> None,
          message |-> [topic |-> tpc,
                       payload |-> json_dumps([d |-> self.sensorid,
                                               t |-> values.timestamp.value,
                                               v |-> values.data_dict.value])]]

\* the try block, tick already reset
run_try(self, client, tpc, values, error) ==
    IF error # None THEN run_except(self, client, error)
    ELSE IF Len(values.fields) = 0
    THEN [self |-> self, mqtt |-> client, acks |-> 0, selected |-> TRUE,
          outcome |-> "continue", error |-> None, raised |-> None,
          message |-> NoMessage]
    ELSE [self |-> self, mqtt |-> publish(client), acks |-> 1,
          selected |-> TRUE, outcome |-> "published", error |-> None,
          raised |-> None,
          message |-> [topic |-> tpc,
                       payload |-> json_dumps([d |-> self.sensorid,
                                               t |-> values.timestamp.value,
                                               v |-> values.data_dict.value])]]

\* the loop body without the reset of the tick
run_ticked_no_reset(self, client, tpc, item, publish_ok) ==
    IF skipped(self, item)
    THEN [self |-> self, mqtt |-> client, acks |-> 1, selected |-> FALSE,
          outcome |-> "skipped", error |-> None, raised |-> None,
          message |-> NoMessage]
    ELSE run_try(self, client, tpc, line_values[item.s],
                 try_error(line_values[item.s], publish_ok))

\* the loop body after self.tick += 1
run_ticked(self, client, tpc, item, publish_ok) ==
    IF skipped(self, item)
    THEN [self |-> self, mqtt |-> client, acks |-> 1, selected |-> FALSE,
          outcome |-> "skipped", error |-> None, raised |-> None,
          message |-> NoMessage]
    ELSE run_try([self EXCEPT !.tick = 0], client, tpc, line_values[item.s],
                 try_error(line_values[item.s], publish_ok))

\* the loop body for the item retrieved
run_body(self, client, tpc, item, publish_ok) ==
    run_ticked([self EXCEPT !.tick = @ + 1], client, tpc, item, publish_ok)

\* run: one pass of the loop body, from self.get to the next test of the loop
run_item ==
    /\ pc = "get"
    /\ queue # <<>>
    /\ \E publish_ok \in BOOLEAN :
       \E r \in {run_body(inst, mqtt, topic, Head(queue), publish_ok)} :
          /\ queue' = Tail(queue)
          /\ nget' = nget + 1
          /\ inst' = r.self
          /\ mqtt' = r.mqtt
          /\ nack' = nack + r.acks
          /\ unfinished' = unfinished - r.acks
          /\ last' = [item |-> Head(queue), selected |-> r.selected,
                      outcome |-> r.outcome, error |-> r.error,
                      message |-> r.message]
          /\ pc' = IF r.raised # None THEN "raised" ELSE "head"
          /\ exc' = r.raised
    /\ UNCHANGED <<topic, exiting, nput, xin, xout>>

-----------------------------------------------------------------------------
(* The run of one plugin instance *)

NoInput == [line |-> <<>>, tokens |-> <<>>, fields |-> <<>>, fieldmap |-> <<>>]

Init ==
    /\ pc = "new"
    /\ exc = None
    /\ inst = __init__
    /\ topic = PyNone
    /\ exiting = FALSE
    /\ queue = <<>>
    /\ unfinished = 0
    /\ mqtt = NoClient
    /\ last = [item |-> PyNone, selected |-> FALSE, outcome |-> "none",
               error |-> None, message |-> NoMessage]
    /\ nput = 0
    /\ nget = 0
    /\ nack = 0
    /\ xin = NoInput
    /\ xout = Return(EmptyDict)

Next ==
    \/ \E opts \in OptionSets : configure(opts)
    \/ \E item \in Items : put(item)
    \/ exit
    \/ run_start
    \/ run_head
    \/ run_item

Spec == Init /\ [][Next]_vars

-----------------------------------------------------------------------------
(* extract_fields on its own: one call on a generated line *)

\* the non-empty sequences over S of at most n elements
SeqsUpTo(S, n) == UNION {[1..k -> S] : k \in 1..n}

\* tokens of the generated lines: an integer, a decimal, a word, nothing
Tokens == {<<"7">>, <<"1", ".", "5">>, <<"x">>, <<>>}

\* field names of the generated field maps
Names == {"gravity", "Gravity", "long", "datetime"}

\* forward-lists of the generated calls
ForwardLists == {ClassAttrs.fields, <<"long", "datetime">>}

ExtractInputs ==
    {[line |-> join(",", tokens), tokens |-> tokens, fields |-> fields,
      fieldmap |-> fieldmap] :
        tokens \in SeqsUpTo(Tokens, MaxTokens),
        fields \in ForwardLists,
        fieldmap \in SeqsUpTo(Names, MaxTokens)}

InitExtract ==
    /\ pc = "call"
    /\ exc = None
    /\ inst = __init__
    /\ topic = PyNone
    /\ exiting = FALSE
    /\ queue = <<>>
    /\ unfinished = 0
    /\ mqtt = NoClient
    /\ last = [item |-> PyNone, selected |-> FALSE, outcome |-> "none",
               error |-> None, message |-> NoMessage]
    /\ nput = 0
    /\ nget = 0
    /\ nack = 0
    /\ xin \in ExtractInputs
    /\ xout = Return(EmptyDict)

\* MQTTClient.extract_fields(xin.line) with cls.fields and the field map of
\* the input
extract_call ==
    /\ pc = "call"
    /\ xout' = extract_fields(xin.fields, xin.line, xin.fieldmap)
    /\ pc' = "done"
    /\ UNCHANGED <<exc, inst, topic, exiting, queue, unfinished, mqtt, last,
                   nput, nget, nack, xin>>

NextExtract == extract_call

SpecExtract == InitExtract /\ [][NextExtract]_vars

-----------------------------------------------------------------------------
(* convert_gps_time on its own.  A Python int is unbounded and a float is an *)
(* IEEE double, so numbers are sequences of binary digits, least            *)
(* significant first and without leading zeros.                             *)

\* binary digits of a natural number
RECURSIVE Bits(_)
Bits(n) == IF n = 0 THEN <<>> ELSE <<n % 2>> \o Bits(n \div 2)

\* 2^k
Pow2(k) == [i \in 1..(k + 1) |-> IF i = k + 1 THEN 1 ELSE 0]

BitAt(b, i) == IF i <= Len(b) THEN b[i] ELSE 0

\* b without its first n digits: b \div 2^n
Shr(b, n) == SubSeq(b, n + 1, Len(b))

\* a + b + c, c a carry
RECURSIVE AddC(_, _, _)
RECURSIVE AddStep(_, _, _)
AddC(a, b, c) ==
    IF a = <<>> /\ b = <<>> THEN (IF c = 1 THEN <<1>> ELSE <<>>)
    ELSE IF c = 0 /\ a = <<>> THEN b
    ELSE IF c = 0 /\ b = <<>> THEN a
    ELSE AddStep(Shr(a, 1), Shr(b, 1), BitAt(a, 1) + BitAt(b, 1) + c)

AddStep(a, b, sum) == <<sum % 2>> \o AddC(a, b, sum \div 2)

Add(a, b) == AddC(a, b, 0)

\* 2 * b
Twice(b) == IF b = <<>> THEN <<>> ELSE <<0>> \o b

\* a * b
RECURSIVE Mul(_, _)
Mul(a, b) ==
    IF b = <<>> THEN <<>>
    ELSE Add(IF b[1] = 1 THEN a ELSE <<>>, Twice(Mul(a, Shr(b, 1))))

\* a < b
Less(a, b) ==
    \/ Len(a) < Len(b)
    \/ /\ Len(a) = Len(b)
       /\ \E i \in 1..Len(a) :
             /\ a[i] < b[i]
             /\ \A j \in (i + 1)..Len(a) : a[j] = b[j]

\* digits of the significand of a double
Mantissa == 53

\* a double is below 2^MaxExponent
MaxExponent == 1024

\* the kept digits rounded up when the dropped part is more than half a unit,
\* or half a unit and the kept part odd (round half to even)
RoundKept(kept, half, sticky) ==
    IF half = 1 /\ (sticky \/ kept[1] = 1) THEN Add(kept, <<1>>) ELSE kept

\* the integer b rounded to the nearest double, d digits being dropped
RoundDrop(b, d) ==
    [i \in 1..d |-> 0]
    \o RoundKept(Shr(b, d), b[d], \E i \in 1..(d - 1) : b[i] = 1)

RoundDouble(b) ==
    IF Len(b) <= Mantissa THEN b ELSE RoundDrop(b, Len(b) - Mantissa)

OverflowError == [raised |-> "OverflowError"]

Float(b) == [py |-> "float", inf |-> FALSE, bits |-> b]

Inf == [py |-> "float", inf |-> TRUE, bits |-> <<>>]

\* float(n) of an int: the nearest double, OverflowError beyond the doubles
float_rounded(b) ==
    IF Len(b) > MaxExponent THEN OverflowError ELSE Return(Float(b))

float_of_int(n) == float_rounded(RoundDouble(n))

\* the double result of an operation whose exact result is b
float_result(b) == IF Len(b) > MaxExponent THEN Inf ELSE Float(b)

\* x * y and x + y on doubles that hold integers
FMul(x, y) ==
    IF x.inf \/ y.inf THEN Inf
    ELSE float_result(RoundDouble(Mul(x.bits, y.bits)))

FAdd(x, y) ==
    IF x.inf \/ y.inf THEN Inf
    ELSE float_result(RoundDouble(Add(x.bits, y.bits)))

gps_delta == 315964800

gpsweek_cf == 604800

\* convert_gps_time without the offset of the GPS epoch
gps_sum_without_delta(week, seconds) ==
    IF Raises(week) THEN week
    ELSE IF Raises(seconds) THEN seconds
    ELSE Return(FAdd(FMul(week.value, Float(Bits(gpsweek_cf))),
                     seconds.value))

\* gps_ticks = (float(gpsweek) * gpsweek_cf) + float(gpsweekseconds);
\* return gps_delta + gps_ticks; week and seconds are the results of the two
\* float() calls
gps_sum(week, seconds) ==
    IF Raises(week) THEN week
    ELSE IF Raises(seconds) THEN seconds
    ELSE Return(FAdd(Float(Bits(gps_delta)),
                     FAdd(FMul(week.value, Float(Bits(gpsweek_cf))),
                          seconds.value)))

convert_gps_time(gpsweek, gpsweekseconds) ==
    gps_sum(float_of_int(gpsweek), float_of_int(gpsweekseconds))

\* the week numbers of the calls: small ones, a week of 2017, 2^1024
GpsWeeks ==
    {Bits(n) : n \in 0..MaxWeek} \cup {Bits(1978), Pow2(MaxExponent)}

\* the seconds of the calls: small ones, the last second of a week, 2^53,
\* 2^53 + 1, 2^1024
GpsSeconds ==
    {Bits(n) : n \in 0..MaxSeconds}
    \cup {Bits(gpsweek_cf - 1), Pow2(Mantissa),
          Add(Pow2(Mantissa), <<1>>), Pow2(MaxExponent)}

InitGps ==
    /\ pc = "gps"
    /\ exc = None
    /\ inst = __init__
    /\ topic = PyNone
    /\ exiting = FALSE
    /\ queue = <<>>
    /\ unfinished = 0
    /\ mqtt = NoClient
    /\ last = [item |-> PyNone, selected |-> FALSE, outcome |-> "none",
               error |-> None, message |-> NoMessage]
    /\ nput = 0
    /\ nget = 0
    /\ nack = 0
    /\ xin \in [gpsweek : GpsWeeks, gpsweekseconds : GpsSeconds]
    /\ xout = Return(EmptyDict)

\* three calls of convert_gps_time: on the input, on the following week and
\* on the following second
gps_call ==
    /\ pc = "gps"
    /\ xout' = [here |-> convert_gps_time(xin.gpsweek, xin.gpsweekseconds),
                week |-> convert_gps_time(Add(xin.gpsweek, <<1>>),
                                          xin.gpsweekseconds),
                second |-> convert_gps_time(xin.gpsweek,
                                            Add(xin.gpsweekseconds, <<1>>))]
    /\ pc' = "gpsdone"
    /\ UNCHANGED <<exc, inst, topic, exiting, queue, unfinished, mqtt, last,
                   nput, nget, nack, xin>>

NextGps == gps_call

SpecGps == InitGps /\ [][NextGps]_vars

-----------------------------------------------------------------------------
(* Properties of the run loop *)

\* the publish interval of the instance
Interval == Attr(inst, "interval")

\* an item the loop takes for empty or absent
Empty(item) == item = PyNone \/ item = Str(<<>>)

\* the loop has handled at least one item; last describes item number nget
Handled == last.outcome # "none"

\* the loop reached the publish call for the last item
Attempted == last.outcome = "published" \/ last.error = "publishError"

\* C1 as stated: the item at position nget of the consumed sequence is
\* selected for forwarding exactly when nget is a multiple of the interval,
\* whether or not the item is empty or absent.
C1_EveryNth ==
    Handled => (last.selected <=> nget % Interval = 0)

\* C1 amended: the items selected for forwarding are exactly the items that
\* are neither empty nor absent at positions N, 2N, 3N, ... of the consumed
\* sequence; an empty or absent item at such a position is skipped.
C1_EveryNthNonEmpty ==
    Handled => (last.selected <=> (nget % Interval = 0 /\ ~Empty(last.item)))

\* an interval of 3 and the sixth item, which is selected
C1_Witness ==
    Interval = 3 /\ nget = 6 /\ last.selected

\* run has left its loop through the exception of the last item
LoopRaised == pc = "raised" /\ Handled

\* C2: run leaves its loop through the exception path exactly when the error
\* counter has become greater than 10, that is on the 11th processing
\* exception and not on the 10th or an earlier one, and the exception that
\* propagates is the one that item raised.
C2_RaisesOnEleventh ==
    /\ LoopRaised <=> inst._errcount > ErrorLimit
    /\ LoopRaised => inst._errcount = ErrorLimit + 1 /\ exc = last.error
    /\ last.outcome = "error" /\ inst._errcount <= ErrorLimit
           => pc \in {"head", "get", "returned"} /\ exc = None

\* the 11th processing exception has ended the run
C2_Witness ==
    LoopRaised /\ inst._errcount = ErrorLimit + 1 /\ last.outcome = "error"

\* configure_client has returned a topic and run has since left its loop
LoopExited == pc \in {"returned", "raised"} /\ topic # PyNone

\* C3: whenever run has left its loop after a successful connect, by the
\* shutdown flag or by the exception re-raised after the 11th error, the
\* client's disconnect has been called.
C3_DisconnectOnExit ==
    LoopExited /\ mqtt.connects > 0
        => mqtt.disconnects > 0 /\ mqtt.state = "disconnected"

\* C4: when the loop test finds the shutdown flag set, that step of run calls
\* the client's disconnect, publishes and handles nothing, and returns; a run
\* that has returned has disconnected exactly once and takes no further step.
C4_ShutdownDisconnectsOnce ==
    /\ [](pc = "returned"
            => mqtt.disconnects = 1 /\ mqtt.state = "disconnected" /\ exiting)
    /\ [][pc = "head" /\ exiting /\ pc' # pc
            => /\ pc' = "returned"
               /\ mqtt'.disconnects = mqtt.disconnects + 1
               /\ mqtt'.state = "disconnected"
               /\ last' = last /\ nget' = nget /\ nack' = nack]_vars
    /\ [][pc = "returned" => UNCHANGED <<mqtt, last, nget, nack>>]_vars

\* a run that published and then returned on the shutdown flag
C4_Witness ==
    pc = "returned" /\ exiting /\ mqtt.published /\ mqtt.disconnects = 1

\* C5: with no endpoint set, run ends in the configuration error (ValueError)
\* of configure_client: no client has been constructed or connected, no item
\* retrieved, acknowledged or published, and tick and error counter are as
\* __init__ left them.
C5_NoEndpoint ==
    Attr(inst, "endpoint") = PyNone /\ pc \notin {"new", "ready"}
        => /\ pc = "raised" /\ exc = "ValueError"
           /\ mqtt = NoClient /\ inst.client = PyNone
           /\ nget = 0 /\ nack = 0 /\ ~Handled
           /\ inst.tick = 0 /\ inst._errcount = 0

\* run has failed for want of an endpoint while an item waited in the queue
C5_Witness ==
    Attr(inst, "endpoint") = PyNone /\ pc = "raised" /\ queue # <<>>

\* configure_client has returned a topic to run
Configured == topic # PyNone

\* C6: after configure_client has succeeded on an instance whose sensorid was
\* not configured, self.sensorid is one of the 8-character identifiers
\* str(uuid4())[0:8] gives and never None; if topicid was not configured
\* either, the topic is topic_pfx/sensorid; and a published message carries
\* the sensorid as its member d.
C6_SensorIdDefault ==
    Configured /\ inst.sensorid # SensorName
        => /\ IsStr(inst.sensorid)
           /\ inst.sensorid.s \in Uuid8
           /\ Len(inst.sensorid.s) = 8
           /\ "topicid" \notin DOMAIN inst
                  => topic = PyJoin("/", <<ClassAttrs.topic_pfx,
                                           inst.sensorid>>).value
           /\ last.outcome = "published"
                  => last.message.payload.object.d = inst.sensorid

\* the line of the call has at least as many tokens as the field map entries
WellSized == Len(xin.tokens) >= Len(xin.fieldmap)

\* position i is the last requested position of the field map with its name
LastWithName(i) ==
    \A j \in Requested(xin.fields, xin.fieldmap) :
        xin.fieldmap[j] = xin.fieldmap[i] => j <= i

\* the cast of the field at position i applied to token i
CastAt(i) == _field_casts(lower(xin.fieldmap[i]), xin.tokens[i])

\* C7: on a line with at least as many tokens as the field map has entries
\* extract_fields raises nothing, whatever the forward-list; its result holds
\* every requested field, as the raw token where the cast of the field
\* fails and as the cast value where it does not.
C7_TotalOnWellSized ==
    pc = "done" /\ WellSized
        => /\ ~Raises(xout)
           /\ \A i \in Requested(xin.fields, xin.fieldmap) :
                  /\ xin.fieldmap[i] \in DOMAIN xout.value
                  /\ LastWithName(i)
                         => xout.value[xin.fieldmap[i]]
                              = IF Raises(CastAt(i)) THEN Str(xin.tokens[i])
                                ELSE CastAt(i).value

\* a call on a well-sized line where the cast of one requested field fails
\* and the cast of another succeeds
C7_Witness ==
    /\ pc = "done" /\ WellSized
    /\ \E i, j \in Requested(xin.fields, xin.fieldmap) :
           /\ xin.fieldmap[i] # xin.fieldmap[j]
           /\ Raises(CastAt(i)) /\ ~Raises(CastAt(j))
           /\ xout.value[xin.fieldmap[i]] = Str(xin.tokens[i])

\* C8: with the forward-list gravity, latitude, longitude, datetime
\* configured, the sample line of the module, once selected, is published
\* without a processing error, and the member v of the message holds gravity
\* cast from token 2, latitude and longitude cast from tokens 15 and 16 and
\* datetime converted from the last token.
C8_SamplePublished ==
    Attr(inst, "fields") = ConfiguredFields /\ last.item = Str(SampleLine)
                                    /\ last.selected
        => /\ last.outcome = "published"
           /\ last.error = None
           /\ {ConfiguredFields[i] : i \in 1..4}
                  \subseteq DOMAIN last.message.payload.object.v
           /\ last.message.payload.object.v.gravity
                  = PyFloat(line_values[SampleLine].fields[2]).value
           /\ last.message.payload.object.v.latitude
                  = PyFloat(line_values[SampleLine].fields[15]).value
           /\ last.message.payload.object.v.longitude
                  = PyFloat(line_values[SampleLine].fields[16]).value
           /\ last.message.payload.object.v.datetime
                  = convert_time(line_values[SampleLine].fields[18]).value

\* C9: every item retrieved has been acknowledged exactly once by the time
\* the loop is back at its test, retrieves the next item or has been left, so
\* between the passes of the loop task_done has been called as often as get.
C9_AckedOnce ==
    nack = nget

\* C10: with interval 1 a publish is attempted for the last item retrieved
\* exactly when that item is neither empty nor absent.
C10_AttemptForEveryNonEmpty ==
    Interval = 1 /\ Handled => (Attempted <=> ~Empty(last.item))

\* the exact integer 315964800 + 604800 * week + seconds
GpsExact(week, seconds) ==
    Add(Bits(gps_delta), Add(Mul(week, Bits(gpsweek_cf)), seconds))

\* the three results of the call in order: the following week and the
\* following second give more than the input
GpsIncreasing ==
    /\ ~Raises(xout.week) /\ ~Raises(xout.second)
    /\ ~xout.week.value.inf /\ ~xout.second.value.inf
    /\ Less(xout.here.value.bits, xout.week.value.bits)
    /\ Less(xout.here.value.bits, xout.second.value.bits)

GpsWithinDouble ==
    /\ Len(xin.gpsweek) <= Mantissa
    /\ Len(xin.gpsweekseconds) <= Mantissa + 1
    /\ Less(GpsExact(Add(xin.gpsweek, <<1>>), Add(xin.gpsweekseconds, <<1>>)),
            Add(Pow2(Mantissa), <<1>>))

ErrorStep == nget' = nget + 1 /\ last'.outcome = "error"

\* C12: the error counter is 0 until the loop runs, never exceeds 11, changes
\* only by +1 and only in a pass of the loop whose processing raised (every
\* such pass adds 1; skipped and published items leave it unchanged), and
\* once it is 11 the run has ended by the exception, whatever was published
\* in between.
C12_ErrorCounterAccumulates ==
    /\ [](pc \in {"new", "ready"} => inst._errcount = 0)
    /\ [](inst._errcount \in 0..(ErrorLimit + 1))
    /\ [](inst._errcount = ErrorLimit + 1 => pc = "raised")
    /\ [][IF ErrorStep THEN inst'._errcount = inst._errcount + 1
          ELSE inst'._errcount = inst._errcount]_vars

\* the 11th processing exception ends a run that has published in between
C12_Witness ==
    /\ pc = "raised" /\ inst._errcount = ErrorLimit + 1
    /\ mqtt.published /\ nget = ErrorLimit + 2

\* the step is a pass of the loop that reaches the publish call
PublishStep == nget' = nget + 1 /\ Attempted'

\* C13: connect is called at most once, in configure_client before any item
\* is retrieved; a publish is called only on the connected client, after the
\* connect and before any disconnect; disconnect is called at most once;
\* after a disconnect nothing is connected, retrieved or published.
C13_ConnectionLifecycle ==
    /\ [](mqtt.connects <= 1 /\ mqtt.disconnects <= 1)
    /\ [](nget > 0 \/ mqtt.disconnects > 0 \/ mqtt.published
            => mqtt.connects = 1)
    /\ [][mqtt'.connects # mqtt.connects
            => pc = "ready" /\ nget = 0 /\ mqtt.disconnects = 0
               /\ ~mqtt.published]_vars
    /\ [][PublishStep
            => mqtt.state = "connected" /\ mqtt.disconnects = 0]_vars
    /\ [][mqtt.disconnects > 0
            => mqtt' = mqtt /\ nget' = nget /\ last' = last]_vars

\* a run that connected, handled three items, published and disconnected
C13_Witness ==
    /\ mqtt.connects = 1 /\ mqtt.disconnects = 1 /\ mqtt.published
    /\ mqtt.state = "disconnected" /\ nget = 3

\* C14: once the shutdown flag is set it stays set; the loop test that finds
\* it set ends the run without retrieving anything; so with the flag set the
\* loop retrieves at most the one item it is already waiting for in get, and
\* goes from that item to the loop test (or out by the 11th exception) also
\* when its processing raised; and the wait in get ends only by the
\* retrieval of an item, so that with no item the loop never exits.
C14_CooperativeShutdown ==
    /\ [][exiting => exiting']_vars
    /\ [][exiting /\ pc = "head" /\ pc' # pc
            => pc' = "returned" /\ nget' = nget]_vars
    /\ [][exiting /\ nget' # nget
            => pc = "get" /\ nget' = nget + 1
               /\ pc' \in {"head", "raised"}]_vars
    /\ [][pc = "get" /\ pc' # pc
            => queue # <<>> /\ nget' = nget + 1 /\ queue' = Tail(queue)]_vars

\* the flag is set and the loop waits in get on an empty queue
C14_Witness ==
    exiting /\ pc = "get" /\ queue = <<>> /\ last.outcome = "error"

\* the processing of the last item raised and the exception was absorbed
Absorbed == last.outcome = "error" /\ pc # "raised"

\* C15 as stated, for the item that directly follows a failed forward: it is
\* the Nth following item, and so the next forwarding attempt, exactly when
\* the interval is 1.
C15_NextAttemptOnNth ==
    [][Absorbed /\ nget' = nget + 1 => (last'.selected <=> Interval = 1)]_vars

\* C15 amended: after a processing exception that is absorbed the loop goes
\* on; the failed item has left the queue, nothing was published for it, and
\* the tick is 0 exactly as after a published item; from there on an item is
\* selected when it is neither empty nor absent and the tick reaches a
\* multiple of N, so the next forwarding attempt is on the Nth following
\* item only if that item is not empty.
C15_ContinuesAfterError ==
    /\ [](Absorbed => /\ pc \in {"head", "get", "returned"}
                      /\ exc = None
                      /\ inst.tick = 0
                      /\ last.message = NoMessage)
    /\ [](last.outcome = "published" => inst.tick = 0)
    /\ [][nget' = nget + 1
            => /\ queue' = Tail(queue)
               /\ last'.selected <=> /\ (inst.tick + 1) % Interval = 0
                                      /\ ~Empty(last'.item)]_vars
    /\ [][Absorbed /\ nget' = nget + 1
            => (last'.selected <=> Interval = 1 /\ ~Empty(last'.item))]_vars

\* interval 2: the second item failed, the fourth is published
C15_Witness ==
    /\ Interval = 2 /\ nget = 4 /\ inst._errcount = 1
    /\ last.outcome = "published"

\* C16: the keys of the mapping extract_fields returned for a published
\* message are exactly the names of the field map whose lower-cased form is
\* in the forward-list of the running component; no other field appears.
C16_KeysAreConfigured ==
    last.outcome = "published"
        => DOMAIN last.message.payload.object.v
               = {_marine_fieldmap[i] :
                      i \in Requested(Attr(inst, "fields"), _marine_fieldmap)}

\* the pass that retrieves the head of the queue skips it
SkipStep ==
    /\ nget' = nget + 1
    /\ (inst.tick + 1) % Interval # 0 \/ Empty(Head(queue))

TimeTokens ==
    {<<"x">>, <<"2", "0", "1", "7">>,
     <<"2", "0", "1", "7", "1", "3", "0", "6", "1", "7", "3", "3", "4", "8">>,
     <<"2", "0", "1", "7", "1", "2", "0", "6", "1", "7", "3", "3", "4", "8",
       "9">>}

\* convert_time of each of these tokens
time_values == [t \in TimeTokens |-> convert_time(t)] @@ EmptyDict

\* the pass selects the second sample line and its publish call returns
BadTimeStep ==
    /\ nget' = nget + 1
    /\ last'.selected
    /\ last'.item = Str(SampleLine2)
    /\ last'.error # "publishError"

\* C18: convert_time raises for no text token; a selected line whose last
\* token is no YYYYMMDDHHMMSS timestamp is published with the current time
\* as its timestamp and leaves the error counter as it was, unless the
\* publish call itself raises.
C18_BadTimestampNotAnError ==
    /\ [](\A t \in TimeTokens : ~Raises(time_values[t]))
    /\ [](\A line \in Lines : ~Raises(line_values[line].timestamp))
    /\ [](line_values[SampleLine2].timestamp.value.of = "utcnow")
    /\ [][BadTimeStep
            => /\ last'.outcome = "published"
               /\ last'.message.payload.object.t.of = "utcnow"
               /\ inst'._errcount = inst._errcount]_vars

\* after one absorbed error the second sample line is published with the
\* current time; the counter is still 1
C18_Witness ==
    /\ last.item = Str(SampleLine2) /\ last.outcome = "published"
    /\ last.message.payload.object.t.of = "utcnow"
    /\ inst._errcount = 1

====
